---- MODULE Spec2Model ----
(***************************************************************************)
(* MQTT -> Panasonic Viera bridge: MqttRemoteSubscriber                    *)
(* (panasonic_viera/mqtt_remote.py) and its service runner.                *)
(*                                                                         *)
(* Text is a sequence of one-character strings; a payload is a sequence of *)
(* bytes, an ASCII byte written as its character and a byte >= 0x80 by its *)
(* hexadecimal name ("xC3").  Python values are tagged records.            *)
(***************************************************************************)
EXTENDS Integers, Sequences, FiniteSets, TLC

VARIABLES
    status,       \* Subscription status (section 4.4 of the design)
    subscribed,   \* the broker holds a subscription for self.topic
    loop,         \* paho network thread: "none" | "running" | "dead"
    ctl,          \* control thread: position inside start()/stop()
    stopResult,   \* outcome of the last stop(): "none" | "returned" | "raised"
    inbox,        \* messages the broker has sent and the loop has not handled
    pc,           \* loop thread: position inside _on_message
    msg,          \* payload bytes of the message being (last) handled
    payload,      \* local `payload` of _on_message
    key_to_send,  \* local `key_to_send` of _on_message
    calls,        \* calls made while handling the current message, in order
    result,       \* of the current/last callback: "none" | "running" | "returned" | "raised"
    conn          \* the last connection attempt and what _on_connect did for it

vars == <<status, subscribed, loop, ctl, stopResult, inbox, pc, msg, payload,
          key_to_send, calls, result, conn>>

----------------------------------------------------------------------------
(* Python values *)

PyNone == [t |-> "None"]
PyStr(s) == [t |-> "str", s |-> s]
PyInt(n) == [t |-> "int", n |-> n]
PyBool(b) == [t |-> "bool", b |-> b]
PyList(xs) == [t |-> "list", xs |-> xs]
PyDict(kv) == [t |-> "dict", kv |-> kv]

\* Python truthiness, as `or` tests it
Truthy(v) ==
    CASE v.t = "None" -> FALSE
      [] v.t = "str"  -> v.s # <<>>
      [] v.t = "int"  -> v.n # 0
      [] v.t = "bool" -> v.b
      [] v.t = "list" -> v.xs # <<>>
      [] v.t = "dict" -> v.kv # <<>>
      [] OTHER        -> TRUE

----------------------------------------------------------------------------
(* Characters *)

Q == "\""
BS == "\\"
Lower == <<"a","b","c","d","e","f","g","h","i","j","k","l","m",
           "n","o","p","q","r","s","t","u","v","w","x","y","z">>
Upper == <<"A","B","C","D","E","F","G","H","I","J","K","L","M",
           "N","O","P","Q","R","S","T","U","V","W","X","Y","Z">>
Digits == <<"0","1","2","3","4","5","6","7","8","9">>

Range(f) == {f[i] : i \in DOMAIN f}
IndexOf(f, c) == CHOOSE i \in DOMAIN f : f[i] = c

\* str.upper() / str.lower() on one character; "uE9"/"uC9" stand for U+00E9/U+00C9
UpperChar(c) ==
    IF c \in Range(Lower) THEN Upper[IndexOf(Lower, c)]
    ELSE IF c = "uE9" THEN "uC9" ELSE c
LowerChar(c) ==
    IF c \in Range(Upper) THEN Lower[IndexOf(Upper, c)]
    ELSE IF c = "uC9" THEN "uE9" ELSE c
StrUpper(s) == [i \in DOMAIN s |-> UpperChar(s[i])]
StrLower(s) == [i \in DOMAIN s |-> LowerChar(s[i])]

----------------------------------------------------------------------------
(* bytes.decode("utf-8").strip() *)

\* bytes >= 0x80 of the model: one two-byte lead and two continuation bytes
LeadBytes == {"xC3"}
ContBytes == {"x80", "x89", "xA9"}
HighBytes == LeadBytes \cup ContBytes

\* the character a two-byte sequence xC3 <cont> encodes
TwoByteChar(c) == CASE c = "x80" -> "uC0" [] c = "x89" -> "uC9" [] c = "xA9" -> "uE9"

RECURSIVE Utf8From(_, _)
\* decode b[i..]; [ok |-> FALSE] is UnicodeDecodeError
Utf8From(b, i) ==
    IF i > Len(b) THEN [ok |-> TRUE, text |-> <<>>]
    ELSE IF b[i] \notin HighBytes
         THEN LET r == Utf8From(b, i + 1)
              IN  IF r.ok THEN [ok |-> TRUE, text |-> <<b[i]>> \o r.text] ELSE r
    ELSE IF b[i] \in LeadBytes /\ i < Len(b) /\ b[i + 1] \in ContBytes
         THEN LET r == Utf8From(b, i + 2)
              IN  IF r.ok THEN [ok |-> TRUE, text |-> <<TwoByteChar(b[i + 1])>> \o r.text]
                  ELSE r
    ELSE [ok |-> FALSE]

Utf8Decode(b) == Utf8From(b, 1)

Whitespace == {" ", "\t", "\n", "\r"}

RECURSIVE LStrip(_)
LStrip(s) == IF s # <<>> /\ Head(s) \in Whitespace THEN LStrip(Tail(s)) ELSE s
RECURSIVE RStrip(_)
RStrip(s) ==
    IF s # <<>> /\ s[Len(s)] \in Whitespace THEN RStrip(SubSeq(s, 1, Len(s) - 1)) ELSE s
Strip(s) == RStrip(LStrip(s))

----------------------------------------------------------------------------
(* json.loads, for the JSON the model's payloads are written in: objects,  *)
(* arrays, strings with the escapes \" \\ \/ \n \t \r, integers, true,     *)
(* false, null.  A parse result is [ok, v, i]: the value and the index     *)
(* after it; [ok |-> FALSE] is json.JSONDecodeError.                       *)

Fail == [ok |-> FALSE]
At(s, i) == IF i \in 1..Len(s) THEN s[i] ELSE "EOF"

RECURSIVE SkipWs(_, _)
SkipWs(s, i) == IF At(s, i) \in Whitespace THEN SkipWs(s, i + 1) ELSE i

Escapes == <<Q, BS, "/", "n", "t", "r">>
Escaped == <<Q, BS, "/", "\n", "\t", "\r">>

RECURSIVE ScanString(_, _, _)
\* s[j..] is the rest of a string literal whose decoded prefix is acc
ScanString(s, j, acc) ==
    LET c == At(s, j)
    IN  IF c = "EOF" \/ c \in {"\n", "\t", "\r"} THEN Fail
        ELSE IF c = Q THEN [ok |-> TRUE, v |-> PyStr(acc), i |-> j + 1]
        ELSE IF c = BS
             THEN IF At(s, j + 1) \in Range(Escapes)
                  THEN ScanString(s, j + 2,
                                  Append(acc, Escaped[IndexOf(Escapes, s[j + 1])]))
                  ELSE Fail
        ELSE ScanString(s, j + 1, Append(acc, c))

RECURSIVE ScanDigits(_, _, _)
ScanDigits(s, j, n) ==
    IF At(s, j) \in Range(Digits)
    THEN ScanDigits(s, j + 1, 10 * n + (IndexOf(Digits, s[j]) - 1))
    ELSE [n |-> n, i |-> j]

\* -?(0|[1-9][0-9]*)
ScanNumber(s, i) ==
    LET neg == At(s, i) = "-"
        j == IF neg THEN i + 1 ELSE i
    IN  IF At(s, j) \notin Range(Digits) THEN Fail
        ELSE LET d == IF s[j] = "0" THEN [n |-> 0, i |-> j + 1] ELSE ScanDigits(s, j, 0)
             IN  [ok |-> TRUE, v |-> PyInt(IF neg THEN 0 - d.n ELSE d.n), i |-> d.i]

StartsWith(s, i, w) ==
    /\ i + Len(w) - 1 <= Len(s)
    /\ \A k \in 1..Len(w) : s[i + k - 1] = w[k]

RECURSIVE ScanValue(_, _)
RECURSIVE ScanElems(_, _, _)
RECURSIVE ScanMembers(_, _, _)

\* s[i] is the first character of a value
ScanValue(s, i) ==
    LET c == At(s, i)
    IN  IF c = Q THEN ScanString(s, i + 1, <<>>)
        ELSE IF c = "{"
             THEN LET j == SkipWs(s, i + 1)
                  IN  IF At(s, j) = "}"
                      THEN [ok |-> TRUE, v |-> PyDict(<<>>), i |-> j + 1]
                      ELSE ScanMembers(s, j, <<>>)
        ELSE IF c = "["
             THEN LET j == SkipWs(s, i + 1)
                  IN  IF At(s, j) = "]"
                      THEN [ok |-> TRUE, v |-> PyList(<<>>), i |-> j + 1]
                      ELSE ScanElems(s, j, <<>>)
        ELSE IF StartsWith(s, i, <<"n","u","l","l">>)
             THEN [ok |-> TRUE, v |-> PyNone, i |-> i + 4]
        ELSE IF StartsWith(s, i, <<"t","r","u","e">>)
             THEN [ok |-> TRUE, v |-> PyBool(TRUE), i |-> i + 4]
        ELSE IF StartsWith(s, i, <<"f","a","l","s","e">>)
             THEN [ok |-> TRUE, v |-> PyBool(FALSE), i |-> i + 5]
        ELSE ScanNumber(s, i)

\* s[i] starts an array element; acc holds the elements before it
ScanElems(s, i, acc) ==
    LET r == ScanValue(s, i)
    IN  IF ~r.ok THEN Fail
        ELSE LET j == SkipWs(s, r.i)
             IN  IF At(s, j) = "]"
                 THEN [ok |-> TRUE, v |-> PyList(Append(acc, r.v)), i |-> j + 1]
                 ELSE IF At(s, j) = ","
                      THEN ScanElems(s, SkipWs(s, j + 1), Append(acc, r.v))
                      ELSE Fail

\* s[i] starts an object member; acc holds the members before it
ScanMembers(s, i, acc) ==
    IF At(s, i) # Q THEN Fail
    ELSE LET k == ScanString(s, i + 1, <<>>)
         IN  IF ~k.ok THEN Fail
             ELSE LET c == SkipWs(s, k.i)
                  IN  IF At(s, c) # ":" THEN Fail
                      ELSE LET r == ScanValue(s, SkipWs(s, c + 1))
                           IN  IF ~r.ok THEN Fail
                               ELSE LET j == SkipWs(s, r.i)
                                        kv == Append(acc, <<k.v.s, r.v>>)
                                    IN  IF At(s, j) = "}"
                                        THEN [ok |-> TRUE, v |-> PyDict(kv), i |-> j + 1]
                                        ELSE IF At(s, j) = ","
                                             THEN ScanMembers(s, SkipWs(s, j + 1), kv)
                                             ELSE Fail

JsonLoads(text) ==
    LET r == ScanValue(text, SkipWs(text, 1))
    IN  IF r.ok /\ SkipWs(text, r.i) = Len(text) + 1 THEN [ok |-> TRUE, v |-> r.v]
        ELSE Fail

\* dict: `k in d`, and d.get(k) (None when absent; the last duplicate wins)
HasKey(d, k) == \E i \in DOMAIN d.kv : d.kv[i][1] = k
DictGet(d, k) ==
    IF HasKey(d, k)
    THEN LET last == CHOOSE i \in DOMAIN d.kv :
                        /\ d.kv[i][1] = k
                        /\ \A j \in DOMAIN d.kv : d.kv[j][1] = k => j <= i
         IN  d.kv[last][2]
    ELSE PyNone

----------------------------------------------------------------------------
(* str(x) and repr(x) *)

RECURSIVE NatStr(_)
NatStr(n) == IF n < 10 THEN <<Digits[n + 1]>> ELSE NatStr(n \div 10) \o <<Digits[(n % 10) + 1]>>
IntStr(n) == IF n < 0 THEN <<"-">> \o NatStr(0 - n) ELSE NatStr(n)

RECURSIVE ReprChars(_, _)
\* the body of repr(str) inside the quote character q
ReprChars(s, q) ==
    IF s = <<>> THEN <<>>
    ELSE LET c == Head(s)
             e == CASE c = BS   -> <<BS, BS>>
                    [] c = "\n" -> <<BS, "n">>
                    [] c = "\t" -> <<BS, "t">>
                    [] c = "\r" -> <<BS, "r">>
                    [] c = q    -> <<BS, q>>
                    [] OTHER    -> <<c>>
         IN  e \o ReprChars(Tail(s), q)

ReprStr(s) ==
    LET q == IF "'" \in Range(s) /\ Q \notin Range(s) THEN Q ELSE "'"
    IN  <<q>> \o ReprChars(s, q) \o <<q>>

RECURSIVE Repr(_)
RECURSIVE ReprJoin(_, _)
\* repr of the items xs, comma separated; pairs marks dict items
ReprJoin(xs, pairs) ==
    IF xs = <<>> THEN <<>>
    ELSE LET x == Head(xs)
             one == IF pairs THEN ReprStr(x[1]) \o <<":", " ">> \o Repr(x[2]) ELSE Repr(x)
         IN  one \o (IF Len(xs) > 1 THEN <<",", " ">> ELSE <<>>) \o ReprJoin(Tail(xs), pairs)

Repr(v) ==
    CASE v.t = "None" -> <<"N","o","n","e">>
      [] v.t = "str"  -> ReprStr(v.s)
      [] v.t = "int"  -> IntStr(v.n)
      [] v.t = "bool" -> IF v.b THEN <<"T","r","u","e">> ELSE <<"F","a","l","s","e">>
      [] v.t = "list" -> <<"[">> \o ReprJoin(v.xs, FALSE) \o <<"]">>
      [] v.t = "dict" -> <<"{">> \o ReprJoin(v.kv, TRUE) \o <<"}">>

\* str(x): a str is itself, anything else prints as its repr
Str(v) == IF v.t = "str" THEN v.s ELSE Repr(v)

----------------------------------------------------------------------------
(* The Keys enumeration (panasonic_viera/keys.py): members by name and by  *)
(* value.  Names are upper case and unique, values are unique.             *)

Key(name, value) == [t |-> "Keys", name |-> name, value |-> value]

NRC(code) == <<"N","R","C","_">> \o code \o <<"-","O","N","O","F","F">>

Keys ==
    { Key(<<"U","P">>, NRC(<<"U","P">>)),
      Key(<<"M","U","T","E">>, NRC(<<"M","U","T","E">>)),
      Key(<<"A","P","P","S">>, NRC(<<"A","P","P","S">>)),
      Key(<<"V","O","L","U","M","E","_","U","P">>, NRC(<<"V","O","L","U","P">>)) }

\* Keys[name]: the member, or KeyError
KeysByName(name) ==
    IF \E k \in Keys : k.name = name
    THEN [ok |-> TRUE, v |-> CHOOSE k \in Keys : k.name = name]
    ELSE Fail

\* Keys(value): the member, or ValueError
KeysByValue(value) ==
    IF \E k \in Keys : k.value = value
    THEN [ok |-> TRUE, v |-> CHOOSE k \in Keys : k.value = value]
    ELSE Fail

----------------------------------------------------------------------------
(* MqttRemoteSubscriber._get_payload and ._get_key_to_send *)

S_key == <<"k","e","y">>
S_action == <<"a","c","t","i","o","n">>

\* a or b or c
Or3(a, b, c) == IF Truthy(a) THEN a ELSE IF Truthy(b) THEN b ELSE c

\* JSON that is not an object yields the trimmed text, not the decoded value
_get_payload_NonDictAsText(bytes) ==
    LET d == Utf8Decode(bytes)
    IN  IF ~d.ok THEN PyNone
        ELSE LET payload_text == Strip(d.text)
                 data == JsonLoads(payload_text)
             IN  IF data.ok
                 THEN IF data.v.t = "dict"
                      THEN Or3(DictGet(data.v, S_key), DictGet(data.v, S_action),
                               PyStr(payload_text))
                      ELSE PyStr(payload_text)
                 ELSE PyStr(payload_text)

\* a decode error yields the empty string instead of None
_get_payload_DecodeErrorEmpty(bytes) ==
    LET d == Utf8Decode(bytes)
    IN  IF ~d.ok THEN PyStr(<<>>)
        ELSE LET payload_text == Strip(d.text)
                 data == JsonLoads(payload_text)
             IN  IF data.ok
                 THEN IF data.v.t = "dict"
                      THEN Or3(DictGet(data.v, S_key), DictGet(data.v, S_action),
                               PyStr(payload_text))
                      ELSE data.v
                 ELSE PyStr(payload_text)

_get_payload(bytes) ==
    LET d == Utf8Decode(bytes)
    IN  IF ~d.ok THEN PyNone
        ELSE LET payload_text == Strip(d.text)
                 data == JsonLoads(payload_text)
             IN  IF data.ok
                 THEN IF data.v.t = "dict"
                      THEN Or3(DictGet(data.v, S_key), DictGet(data.v, S_action),
                               PyStr(payload_text))
                      ELSE data.v
                 ELSE PyStr(payload_text)

\* the name is looked up as given, not upper-cased
_get_key_to_send_NoUpper(p) ==
    IF p.t = "str"
    THEN LET byName == KeysByName(p.s)
             byValue == KeysByValue(p.s)
         IN  IF byName.ok THEN byName.v
             ELSE IF byValue.ok THEN byValue.v
             ELSE PyNone
    ELSE IF p.t \in {"int", "bool"} THEN p
    ELSE PyNone

\* no lookup by value after the lookup by name fails
_get_key_to_send_NameOnly(p) ==
    IF p.t = "str"
    THEN LET byName == KeysByName(StrUpper(p.s))
         IN  IF byName.ok THEN byName.v ELSE PyNone
    ELSE IF p.t \in {"int", "bool"} THEN p
    ELSE PyNone

_get_key_to_send(p) ==
    IF p.t = "str"
    THEN LET byName == KeysByName(StrUpper(p.s))
             byValue == KeysByValue(p.s)
         IN  IF byName.ok THEN byName.v
             ELSE IF byValue.ok THEN byValue.v
             ELSE PyNone
    ELSE IF p.t \in {"int", "bool"} THEN p
    ELSE PyNone

----------------------------------------------------------------------------
(* Inbound payloads *)

T_APPS == <<"A","P","P","S">>
T_DEVICE_INFO == <<"D","E","V","I","C","E","_","I","N","F","O">>
T_VECTOR_INFO == <<"V","E","C","T","O","R","_","I","N","F","O">>
S_other == <<"o","t","h","e","r">>
S_X == <<"X">>
S_Y == <<"Y">>
S_mute == <<"m","u","t","e">>

\* json.dumps(v): the text of a JSON value (", " and ": " separators)
RECURSIVE JsonDumps(_)
RECURSIVE JsonJoin(_, _)
JsonJoin(xs, pairs) ==
    IF xs = <<>> THEN <<>>
    ELSE LET x == Head(xs)
             one == IF pairs
                    THEN <<Q>> \o ReprChars(x[1], Q) \o <<Q, ":", " ">> \o JsonDumps(x[2])
                    ELSE JsonDumps(x)
         IN  one \o (IF Len(xs) > 1 THEN <<",", " ">> ELSE <<>>) \o JsonJoin(Tail(xs), pairs)

JsonDumps(v) ==
    CASE v.t = "None" -> <<"n","u","l","l">>
      [] v.t = "str"  -> <<Q>> \o ReprChars(v.s, Q) \o <<Q>>
      [] v.t = "int"  -> IntStr(v.n)
      [] v.t = "bool" -> IF v.b THEN <<"t","r","u","e">> ELSE <<"f","a","l","s","e">>
      [] v.t = "list" -> <<"[">> \o JsonJoin(v.xs, FALSE) \o <<"]">>
      [] v.t = "dict" -> <<"{">> \o JsonJoin(v.kv, TRUE) \o <<"}">>

\* the payloads of tests/test_mqtt_payload.py and tests/test_mqtt_remote_keys.py,
\* and one payload for each branch of _get_payload, _get_key_to_send, _on_message
RawPayloads ==
    { <<>>, <<" ", "\n">>,
      <<"x80","a","b","c">>, <<"u","p","xC3">>, <<"xC3","xA9">>,
      T_APPS, T_DEVICE_INFO, T_VECTOR_INFO,
      <<" ">> \o T_APPS \o <<"\n">>,
      StrLower(T_APPS), <<"D","e","v","i","c","e","_","I","n","f","o">>,
      <<"u","p">>, <<"M","U","T","E">>, <<"V","o","L","u","M","e","_","U","p">>,
      NRC(<<"U","P">>), StrLower(NRC(<<"U","P">>)), NRC(<<"A","P","P","S">>),
      <<"R","A","W","_","K","E","Y","_","C","O","D","E">>,
      <<"{","i","n","v","a","l","i","d",":"," ","j","s","o","n","}">>,
      <<"1","2","3">>, <<"0">>, <<"-","5">>, <<"0","1">>,
      <<"t","r","u","e">>, <<"n","u","l","l">>,
      <<"{","}">>, <<"[","]">>, <<"[","1",",","]">>,
      <<"{",Q,"k","e","y",Q,":",Q,"X",Q,",",Q,"k","e","y",Q,":",Q,"u","p",Q,"}">>,
      <<"{",Q,"a","c","t","i","o","n",Q,":",Q,"Y",Q,","," ",Q,"k","e","y",Q,":",Q,"X",Q,"}">> }

JsonPayloads ==
    { JsonDumps(v) : v \in
        { PyStr(T_APPS), PyStr(<<>>), PyStr(S_mute),
          PyList(<<PyStr(<<"a","r","r","a","y">>), PyStr(<<"p","a","y","l","o","a","d">>)>>),
          PyDict(<< <<S_other, PyStr(<<"v","a","l","u","e">>)>> >>),
          PyDict(<< <<S_key, PyStr(<<"V","O","L","U","M","E","_","U","P">>)>> >>),
          PyDict(<< <<S_key, PyStr(T_APPS)>> >>),
          PyDict(<< <<S_action, PyStr(T_VECTOR_INFO)>> >>),
          PyDict(<< <<S_action, PyStr(S_Y)>> >>),
          PyDict(<< <<S_key, PyStr(S_X)>>, <<S_action, PyStr(S_Y)>> >>),
          PyDict(<< <<S_key, PyStr(<<>>)>>, <<S_action, PyStr(S_Y)>> >>),
          PyDict(<< <<S_key, PyInt(0)>>, <<S_action, PyStr(S_Y)>> >>),
          PyDict(<< <<S_key, PyInt(7)>>, <<S_action, PyStr(S_Y)>> >>),
          PyDict(<< <<S_key, PyNone>> >>),
          PyDict(<< <<S_key, PyBool(FALSE)>>, <<S_action, PyInt(0)>> >>),
          PyDict(<< <<S_key, PyList(<<PyStr(S_X)>>)>> >>),
          PyDict(<< <<S_key, PyDict(<< <<S_X, PyInt(1)>> >>)>> >>) } }

Payloads == RawPayloads \cup JsonPayloads

\* msg.topic
Topic == <<"t","v">>

----------------------------------------------------------------------------
(* State machine.  One control thread calls start() and stop(); the paho   *)
(* network thread started by loop_start() runs the callbacks one at a time.*)

\* messages the broker may have in flight to the client
MaxInbox == 2

Call(op, arg) == [op |-> op, arg |-> arg, out |-> "pending"]
Returned(cs, out) == [cs EXCEPT ![Len(cs)].out = out]

Init ==
    /\ status = "Disconnected"
    /\ subscribed = FALSE
    /\ loop = "none"
    /\ ctl = [at |-> "idle", phase |-> "new"]
    /\ stopResult = [result |-> "none", from |-> "none", faults |-> {}]
    /\ inbox = 0
    /\ pc = "idle"
    /\ msg = <<>>
    /\ payload = PyNone
    /\ key_to_send = PyNone
    /\ calls = <<>>
    /\ result = "none"
    /\ conn = [via |-> "none", rc |-> 0, subscribes |-> <<>>, result |-> "none"]

callbackVars == <<pc, msg, payload, key_to_send, calls, result>>

\* start(): connect() may raise (then loop_start() is not reached)
start(connected) ==
    /\ ctl.at = "idle"
    /\ ctl.phase = "new"
    /\ IF connected
       THEN /\ status' = "Connecting"
            /\ loop' = "running"
            /\ ctl' = [ctl EXCEPT !.phase = "started"]
            /\ conn' = [via |-> "start", rc |-> 0, subscribes |-> <<>>, result |-> "none"]
       ELSE UNCHANGED <<status, loop, ctl, conn>>
    /\ UNCHANGED <<subscribed, stopResult, inbox, callbackVars>>

\* self.qos
Qos == 0

\* client.subscribe(self.topic, qos=self.qos), as _on_connect logs it
Subscribe(ok) == [topic |-> Topic, qos |-> Qos, out |-> IF ok THEN "ok" ELSE "raised"]

\* a failing subscribe is not caught: the exception leaves the callback
_on_connect_SubscribeUnguarded(rc, subscribeOk) ==
    /\ loop = "running"
    /\ pc = "idle"
    /\ status = "Connecting"
    /\ IF rc = 0
       THEN /\ status' = "Connected"
            /\ subscribed' = subscribeOk
            /\ conn' = [conn EXCEPT !.rc = rc, !.subscribes = <<Subscribe(subscribeOk)>>,
                                    !.result = IF subscribeOk THEN "returned" ELSE "raised"]
            /\ loop' = IF subscribeOk THEN loop ELSE "dead"
       ELSE /\ status' = "Failed"
            /\ conn' = [conn EXCEPT !.rc = rc, !.subscribes = <<>>, !.result = "returned"]
            /\ UNCHANGED <<subscribed, loop>>
    /\ UNCHANGED <<ctl, stopResult, inbox, callbackVars>>

\* _on_connect(rc): subscribe on rc == 0, a failing subscribe is logged
_on_connect(rc, subscribeOk) ==
    /\ loop = "running"
    /\ pc = "idle"
    /\ status = "Connecting"
    /\ IF rc = 0
       THEN /\ status' = "Connected"
            /\ subscribed' = subscribeOk
            /\ conn' = [conn EXCEPT !.rc = rc, !.subscribes = <<Subscribe(subscribeOk)>>,
                                    !.result = "returned"]
       ELSE /\ status' = "Failed"
            /\ conn' = [conn EXCEPT !.rc = rc, !.subscribes = <<>>, !.result = "returned"]
            /\ UNCHANGED subscribed
    /\ UNCHANGED <<loop, ctl, stopResult, inbox, callbackVars>>

\* _on_disconnect(rc): the broker or the network dropped the connection
_on_disconnect ==
    /\ loop = "running"
    /\ pc = "idle"
    /\ status = "Connected"
    /\ status' = "Disconnected"
    /\ subscribed' = FALSE
    /\ inbox' = 0
    /\ UNCHANGED <<loop, ctl, stopResult, callbackVars, conn>>

\* the network loop connects again after a lost or refused connection
Reconnect ==
    /\ loop = "running"
    /\ pc = "idle"
    /\ status \in {"Disconnected", "Failed"}
    /\ status' = "Connecting"
    /\ conn' = [via |-> "reconnect", rc |-> 0, subscribes |-> <<>>, result |-> "none"]
    /\ UNCHANGED <<subscribed, loop, ctl, stopResult, inbox, callbackVars>>

\* the broker forwards a message published on the topic
BrokerSend ==
    /\ status = "Connected"
    /\ subscribed
    /\ inbox < MaxInbox
    /\ inbox' = inbox + 1
    /\ UNCHANGED <<status, subscribed, loop, ctl, stopResult, callbackVars, conn>>

\* the query tokens are compared after upper-casing, like vocabulary names
QueryOf_AnyCase(p) ==
    IF p.t # "str" THEN "none"
    ELSE CASE StrUpper(p.s) = T_APPS        -> "get_apps"
           [] StrUpper(p.s) = T_DEVICE_INFO -> "get_device_info"
           [] StrUpper(p.s) = T_VECTOR_INFO -> "get_vector_info"
           [] OTHER                         -> "none"

\* the query a token stands for, compared as given
QueryOf(p) ==
    CASE p = PyStr(T_APPS)        -> "get_apps"
      [] p = PyStr(T_DEVICE_INFO) -> "get_device_info"
      [] p = PyStr(T_VECTOR_INFO) -> "get_vector_info"
      [] OTHER                    -> "none"

\* every reply goes to <topic>/apps
ReplyTopic_AppsOnly(q) == Topic \o <<"/">> \o StrLower(T_APPS)

ReplyTopic(q) ==
    Topic \o (CASE q = "get_apps"        -> <<"/">> \o StrLower(T_APPS)
                [] q = "get_device_info" -> <<"/">> \o StrLower(T_DEVICE_INFO)
                [] q = "get_vector_info" -> <<"/">> \o StrLower(T_VECTOR_INFO))

\* the raw string is upper-cased before it is sent
SendArg_Upper(p, k) == IF k = PyNone THEN PyStr(StrUpper(Str(p))) ELSE k

\* `if not key_to_send` in place of `if key_to_send is None`
SendArg_Falsy(p, k) == IF ~Truthy(k) THEN PyStr(Str(p)) ELSE k

\* the argument of send_key
SendArg(p, k) == IF k = PyNone THEN PyStr(Str(p)) ELSE k

\* self._get_payload(msg) and self._get_key_to_send(payload) for each payload
PayloadOf == [b \in Payloads |-> _get_payload(b)]
KeyToSendOf == [b \in Payloads |-> _get_key_to_send(PayloadOf[b])]

\* _on_message, up to its first Device Session call
_on_message(bytes) ==
    /\ loop = "running"
    /\ pc = "idle"
    /\ inbox > 0
    /\ inbox' = inbox - 1
    /\ msg' = bytes
    /\ LET p == PayloadOf[bytes]
           k == KeyToSendOf[bytes]
       IN  /\ payload' = p
           /\ IF p = PyNone
              THEN /\ key_to_send' = PyNone
                   /\ calls' = <<>>
                   /\ pc' = "idle"
                   /\ result' = "returned"
              ELSE IF QueryOf(p) # "none"
              THEN /\ key_to_send' = PyNone
                   /\ calls' = <<Call(QueryOf(p), PyNone)>>
                   /\ pc' = "query"
                   /\ result' = "running"
              ELSE /\ key_to_send' = k
                   /\ calls' = <<Returned(<<Call("_get_key_to_send", p)>>, "ok")[1],
                                Call("send_key", SendArg(p, k))>>
                   /\ pc' = "send"
                   /\ result' = "running"
    /\ UNCHANGED <<status, subscribed, loop, ctl, stopResult, conn>>

\* an exception leaves the callback: the network thread ends with it
Raise ==
    /\ result' = "raised"
    /\ loop' = "dead"
    /\ pc' = "idle"

Return ==
    /\ result' = "returned"
    /\ pc' = "idle"
    /\ UNCHANGED loop

\* the query returns or raises; json.dumps and publish may raise too
QueryReturn(out) ==
    /\ pc = "query"
    /\ LET q == calls[Len(calls)].op
           dumps == Call("json.dumps", PyNone)
           pub == Call("publish", PyStr(ReplyTopic(q)))
           queried == Append(Returned(calls, "ok"), dumps)
           dumped == Append(Returned(queried, "ok"), pub)
       IN  CASE out = "query_raises"   -> calls' = Returned(calls, "raised") /\ Raise
             [] out = "dumps_raises"   -> calls' = Returned(queried, "raised") /\ Raise
             [] out = "publish_raises" -> calls' = Returned(dumped, "raised") /\ Raise
             [] out = "ok"             -> calls' = Returned(dumped, "ok") /\ Return
    /\ UNCHANGED <<status, subscribed, ctl, stopResult, inbox, msg, payload, key_to_send, conn>>

QueryOutcomes == {"query_raises", "dumps_raises", "publish_raises", "ok"}

\* send_key returns, or raises and renew_session is called
SendReturn(ok) ==
    /\ pc = "send"
    /\ IF ok
       THEN /\ calls' = Returned(calls, "ok")
            /\ Return
       ELSE /\ calls' = Append(Returned(calls, "raised"), Call("renew_session", PyNone))
            /\ pc' = "renew"
            /\ UNCHANGED <<result, loop>>
    /\ UNCHANGED <<status, subscribed, ctl, stopResult, inbox, msg, payload, key_to_send, conn>>

\* after a successful renewal the failed command is sent again
RenewReturn_Resend(ok) ==
    /\ pc = "renew"
    /\ IF ok
       THEN /\ calls' = Append(Returned(calls, "ok"),
                               Call("send_key", SendArg(payload, key_to_send)))
            /\ pc' = "send"
            /\ UNCHANGED <<result, loop>>
       ELSE calls' = Returned(calls, "raised") /\ Raise
    /\ UNCHANGED <<status, subscribed, ctl, stopResult, inbox, msg, payload, key_to_send, conn>>

\* renew_session returns or raises, outside any try
RenewReturn(ok) ==
    /\ pc = "renew"
    /\ IF ok
       THEN calls' = Returned(calls, "ok") /\ Return
       ELSE calls' = Returned(calls, "raised") /\ Raise
    /\ UNCHANGED <<status, subscribed, ctl, stopResult, inbox, msg, payload, key_to_send, conn>>

\* a failing unsubscribe is not caught: stop() raises at its first step
stop_unsubscribe_NoCatch(ok) ==
    /\ ctl.at = "idle"
    /\ ctl' = [ctl EXCEPT !.at = IF ok THEN "loop_stop" ELSE "idle"]
    /\ stopResult' = [result |-> IF ok THEN "running" ELSE "raised",
                      from |-> IF ctl.phase = "started" THEN status ELSE ctl.phase,
                      faults |-> IF ok THEN {} ELSE {"unsubscribe"}]
    /\ subscribed' = IF ok THEN FALSE ELSE subscribed
    /\ UNCHANGED <<status, loop, inbox, callbackVars, conn>>

\* stop() also renews the device session, on the caller's thread
stop_unsubscribe_RenewsSession(ok) ==
    /\ ctl.at = "idle"
    /\ ctl' = [ctl EXCEPT !.at = "loop_stop"]
    /\ stopResult' = [result |-> "running",
                      from |-> IF ctl.phase = "started" THEN status ELSE ctl.phase,
                      faults |-> IF ok THEN {} ELSE {"unsubscribe"}]
    /\ subscribed' = IF ok THEN FALSE ELSE subscribed
    /\ calls' = Append(calls, Call("renew_session", PyNone))
    /\ UNCHANGED <<status, loop, inbox, pc, msg, payload, key_to_send, result, conn>>

\* stop(), first step: unsubscribe, errors ignored
stop_unsubscribe(ok) ==
    /\ ctl.at = "idle"
    /\ ctl' = [ctl EXCEPT !.at = "loop_stop"]
    /\ stopResult' = [result |-> "running",
                      from |-> IF ctl.phase = "started" THEN status ELSE ctl.phase,
                      faults |-> IF ok THEN {} ELSE {"unsubscribe"}]
    /\ subscribed' = IF ok THEN FALSE ELSE subscribed
    /\ UNCHANGED <<status, loop, inbox, callbackVars, conn>>

\* loop_stop() is left out: the network thread keeps running
stop_loop_stop_NotHalted ==
    /\ ctl.at = "loop_stop"
    /\ pc = "idle"
    /\ loop' = loop
    /\ ctl' = [ctl EXCEPT !.at = "disconnect"]
    /\ UNCHANGED <<status, subscribed, stopResult, inbox, callbackVars, conn>>

\* stop(), second step: loop_stop() joins the network thread
stop_loop_stop ==
    /\ ctl.at = "loop_stop"
    /\ pc = "idle"
    /\ loop' = "none"
    /\ ctl' = [ctl EXCEPT !.at = "disconnect"]
    /\ UNCHANGED <<status, subscribed, stopResult, inbox, callbackVars, conn>>

\* a failing disconnect is not caught: stop() raises
stop_disconnect_NoCatch(ok) ==
    /\ ctl.at = "disconnect"
    /\ status' = "Disconnected"
    /\ subscribed' = FALSE
    /\ inbox' = 0
    /\ ctl' = [at |-> "idle", phase |-> "stopped"]
    /\ stopResult' = [stopResult EXCEPT
                        !.result = IF ok THEN "returned" ELSE "raised",
                        !.faults = IF ok THEN @ ELSE @ \cup {"disconnect"}]
    /\ UNCHANGED <<loop, callbackVars, conn>>

\* stop(), last step: disconnect, errors ignored.  The network loop is halted
\* by now, so no callback follows: the subscription is torn down (Disconnected)
\* whether or not the call succeeded.
stop_disconnect(ok) ==
    /\ ctl.at = "disconnect"
    /\ status' = "Disconnected"
    /\ subscribed' = FALSE
    /\ inbox' = 0
    /\ ctl' = [at |-> "idle", phase |-> "stopped"]
    /\ stopResult' = [stopResult EXCEPT
                        !.result = "returned",
                        !.faults = IF ok THEN @ ELSE @ \cup {"disconnect"}]
    /\ UNCHANGED <<loop, callbackVars, conn>>

Next ==
    \/ \E ok \in BOOLEAN : start(ok)
    \/ \E rc \in {0, 5}, ok \in BOOLEAN : _on_connect(rc, ok)
    \/ _on_disconnect
    \/ Reconnect
    \/ BrokerSend
    \/ \E b \in Payloads : _on_message(b)
    \/ \E out \in QueryOutcomes : QueryReturn(out)
    \/ \E ok \in BOOLEAN : SendReturn(ok)
    \/ \E ok \in BOOLEAN : RenewReturn(ok)
    \/ \E ok \in BOOLEAN : stop_unsubscribe(ok)
    \/ stop_loop_stop
    \/ \E ok \in BOOLEAN : stop_disconnect(ok)

Spec == Init /\ [][Next]_vars

----------------------------------------------------------------------------
(* The methods called on their own, as tests/test_mqtt_payload.py and      *)
(* tests/test_mqtt_remote_keys.py call them.                               *)

RECURSIVE Spellings(_)
\* every upper/lower/mixed-case spelling of a name
Spellings(name) ==
    IF name = <<>> THEN {<<>>}
    ELSE {<<c>> \o r : c \in {LowerChar(Head(name)), UpperChar(Head(name))},
                       r \in Spellings(Tail(name))}

UnitTokens ==
    {PyStr(s) : s \in UNION {Spellings(k.name) : k \in Keys}}
        \cup {PyStr(k.value) : k \in Keys}
        \cup {PyStr(StrLower(k.value)) : k \in Keys}
        \cup {PayloadOf[b] : b \in Payloads}
        \cup {PyInt(123)}

Test_get_payload(bytes) ==
    /\ msg' = bytes
    /\ payload' = _get_payload(bytes)
    /\ key_to_send' = PyNone
    /\ result' = "_get_payload"
    /\ UNCHANGED <<status, subscribed, loop, ctl, stopResult, inbox, pc, calls, conn>>

Test_get_key_to_send(token) ==
    /\ msg' = <<>>
    /\ payload' = token
    /\ key_to_send' = _get_key_to_send(token)
    /\ result' = "_get_key_to_send"
    /\ UNCHANGED <<status, subscribed, loop, ctl, stopResult, inbox, pc, calls, conn>>

NextUnit ==
    \/ \E b \in Payloads : Test_get_payload(b)
    \/ \E t \in UnitTokens : Test_get_key_to_send(t)

SpecUnit == Init /\ [][NextUnit]_vars

----------------------------------------------------------------------------
(* Properties *)

Count(op) == Cardinality({i \in DOMAIN calls : calls[i].op = op})
CallsOf(op) == {calls[i] : i \in {j \in DOMAIN calls : calls[j].op = op}}
Queries == {"get_apps", "get_device_info", "get_vector_info"}
DeviceOps == Queries \cup {"send_key", "renew_session"}

\* _on_message has been entered for msg / has ended for msg
Entered == result \in {"running", "returned", "raised"}
Done == result \in {"returned", "raised"}

\* payload_text of each payload (only where the bytes decode)
TextOf == [b \in Payloads |->
             IF Utf8Decode(b).ok THEN Strip(Utf8Decode(b).text) ELSE <<"?">>]
DataOf == [b \in Payloads |-> JsonLoads(TextOf[b])]

\* C1: whatever fails while a message is handled, no exception leaves
\* _on_message and the network loop goes on.
C1_NoFaultLeavesOnMessage == result # "raised" /\ loop # "dead"

\* C2: when send_key fails, renew_session is called exactly once for that
\* message and no exception leaves _on_message, also when renew_session fails.
C2_SendFaultRenewsOnceNoFault ==
    (Done /\ \E c \in CallsOf("send_key") : c.out = "raised")
        => Count("renew_session") = 1 /\ result # "raised"

\* the three query tokens with their query and reply topic
SpecialCases ==
    { <<T_APPS, "get_apps", Topic \o <<"/","a","p","p","s">> >>,
      <<T_DEVICE_INFO, "get_device_info",
        Topic \o <<"/","d","e","v","i","c","e","_","i","n","f","o">> >>,
      <<T_VECTOR_INFO, "get_vector_info",
        Topic \o <<"/","v","e","c","t","o","r","_","i","n","f","o">> >> }

QueriedOnly(sc) ==
    /\ Count(sc[2]) = 1
    /\ \A q \in Queries \ {sc[2]} : Count(q) = 0
    /\ Count("_get_key_to_send") = 0
    /\ Count("send_key") = 0

\* C3 as stated: a message whose token is "APPS", "DEVICE_INFO" or
\* "VECTOR_INFO" makes exactly one call of the matching query and exactly one
\* publish to the matching reply topic, and never reaches the resolver or send_key.
C3_QueryOncePublishOnce ==
    \A sc \in SpecialCases :
        (Done /\ payload = PyStr(sc[1]))
            => /\ QueriedOnly(sc)
               /\ Count("publish") = 1
               /\ \A c \in CallsOf("publish") : c.arg = PyStr(sc[3])

\* C3 amended: exactly one call of the matching query, never the resolver or
\* send_key, and one publish to the matching reply topic exactly when the query
\* returned and its result was JSON-encoded; otherwise no publish.
C3_QueryOncePublishIfEncoded ==
    \A sc \in SpecialCases :
        (Done /\ payload = PyStr(sc[1]))
            => /\ QueriedOnly(sc)
               /\ Count("publish") =
                     IF /\ \E c \in CallsOf(sc[2]) : c.out = "ok"
                        /\ \E c \in CallsOf("json.dumps") : c.out = "ok"
                     THEN 1 ELSE 0
               /\ \A c \in CallsOf("publish") : c.arg = PyStr(sc[3])

C3_Witness ==
    /\ result = "returned"
    /\ payload = PyStr(T_DEVICE_INFO)
    /\ Count("get_device_info") = 1
    /\ Count("publish") = 1

\* C4: an empty or all-whitespace payload causes no Device Session call and
\* no publish.
C4_EmptyPayloadNoCalls ==
    (Entered /\ Utf8Decode(msg).ok /\ TextOf[msg] = <<>>) => calls = <<>>

\* C5: a payload that is not valid UTF-8 gives no token; the message causes
\* no Device Session call and no publish, and _on_message returns normally.
C5_UndecodableDropped ==
    (Entered /\ ~Utf8Decode(msg).ok)
        => payload = PyNone /\ calls = <<>> /\ result = "returned"

C5_Witness ==
    /\ result = "returned"
    /\ msg = <<"x80","a","b","c">>
    /\ calls = <<>>

\* C6: for a payload that parses as a JSON object the token is the value of
\* "key" if the object has that key, else the value of "action" if it has that
\* key, else the whole trimmed text.
C6_KeyThenActionThenText ==
    (Entered /\ Utf8Decode(msg).ok /\ DataOf[msg].ok /\ DataOf[msg].v.t = "dict")
        => LET data == DataOf[msg].v
           IN  payload = IF HasKey(data, S_key) THEN DictGet(data, S_key)
                         ELSE IF HasKey(data, S_action) THEN DictGet(data, S_action)
                         ELSE PyStr(TextOf[msg])

\* s is name in some mix of upper and lower case
IsSpelling(s, name) ==
    /\ Len(s) = Len(name)
    /\ \A i \in 1..Len(s) : s[i] \in {LowerChar(name[i]), UpperChar(name[i])}

\* C7: _get_key_to_send returns the member E for every upper/lower/mixed-case
\* spelling of E's name.
C7_NameInAnyCase ==
    \A k \in Keys :
        (result = "_get_key_to_send" /\ payload.t = "str" /\ IsSpelling(payload.s, k.name))
            => key_to_send = k

C7_Witness ==
    /\ result = "_get_key_to_send"
    /\ payload = PyStr(<<"V","o","L","u","M","e","_","U","p">>)
    /\ key_to_send = Key(<<"V","O","L","U","M","E","_","U","P">>, NRC(<<"V","O","L","U","P">>))

UnknownString(p) ==
    /\ p.t = "str"
    /\ \A sc \in SpecialCases : p.s # sc[1]
    /\ \A k \in Keys : ~IsSpelling(p.s, k.name) /\ p.s # k.value

\* C9: for an unknown string token the resolver returns None and send_key is
\* called exactly once, with the string as it was received.
C9_UnknownStringSentAsIs ==
    (Entered /\ UnknownString(payload))
        => /\ key_to_send = PyNone
           /\ Count("_get_key_to_send") = 1
           /\ Count("send_key") = 1
           /\ \A c \in CallsOf("send_key") : c.arg = payload

C9_Witness ==
    /\ result = "returned"
    /\ payload = PyStr(StrLower(NRC(<<"U","P">>)))
    /\ \E c \in CallsOf("send_key") : c.arg = PyStr(StrLower(NRC(<<"U","P">>))) /\ c.out = "ok"

\* C10: stop() never raises, and when it has returned the subscription is
\* Disconnected and the network loop is halted, whatever state it was called
\* in and whether or not unsubscribe and disconnect failed.
C10_StopReturnsDisconnected ==
    /\ stopResult.result # "raised"
    /\ stopResult.result = "returned"
          => status = "Disconnected" /\ loop = "none" /\ ~subscribed /\ ctl.at = "idle"

C10_Witness ==
    stopResult = [result |-> "returned", from |-> "Connected",
                  faults |-> {"unsubscribe", "disconnect"}]

\* C11: every _on_connect with rc = 0, also one that follows a lost connection
\* and a reconnect, makes exactly one subscribe request, for the configured
\* topic and QoS, and returns normally even when subscribe fails; an
\* _on_connect with rc # 0 makes no subscribe request.
C11_SubscribeOncePerConnect ==
    conn.result # "none"
        => /\ conn.result = "returned"
           /\ loop # "dead" \/ result = "raised"
           /\ IF conn.rc = 0
              THEN /\ Len(conn.subscribes) = 1
                   /\ conn.subscribes[1].topic = Topic
                   /\ conn.subscribes[1].qos = Qos
              ELSE conn.subscribes = <<>>

C11_Witness ==
    /\ conn.via = "reconnect"
    /\ conn.rc = 0
    /\ conn.result = "returned"
    /\ Len(conn.subscribes) = 1
    /\ conn.subscribes[1].out = "raised"
    /\ status = "Connected"

\* the Device Session calls that have begun and not yet returned or raised
InFlight == {i \in DOMAIN calls : calls[i].op \in DeviceOps /\ calls[i].out = "pending"}

FailedDeviceCalls == {i \in DOMAIN calls : calls[i].op \in Queries \cup {"send_key"}
                                            /\ calls[i].out = "raised"}

\* C13: when a Device Session call made for a message fails, a query
\* (get_apps, get_device_info, get_vector_info) as much as send_key, then
\* renew_session is called and no exception leaves _on_message.
C13_FailedDeviceCallRenews ==
    (Done /\ FailedDeviceCalls # {})
        => /\ Count("renew_session") >= 1
           /\ result = "returned"

\* the steps of stop(), in the order the claim gives them
StopOrder == {<<"idle", "loop_stop">>, <<"loop_stop", "disconnect">>, <<"disconnect", "idle">>}

\* C14: stop() unsubscribes, then halts the network loop, then disconnects, in
\* that order; the loop is halted only between callbacks, and once stop() has
\* returned no message is handed to _on_message and no Device Session call is
\* made or completed any more.
C14_NoDispatchAfterStop ==
    [][ /\ ctl'.at # ctl.at => <<ctl.at, ctl'.at>> \in StopOrder
        /\ ctl'.at = "loop_stop" /\ ctl.at = "idle" => loop' = loop
        /\ ctl'.at = "disconnect" /\ ctl.at = "loop_stop" => pc = "idle" /\ loop' = "none"
        /\ ctl'.at = "idle" /\ ctl.at = "disconnect" => loop = "none" /\ ctl'.phase = "stopped"
        /\ ctl.at = "disconnect" \/ ctl.phase = "stopped"
              => /\ loop = "none" /\ loop' = "none"
                 /\ UNCHANGED callbackVars
      ]_vars

C14_Witness ==
    /\ ctl = [at |-> "idle", phase |-> "stopped"]
    /\ stopResult.result = "returned"
    /\ stopResult.from = "Connected"
    /\ loop = "none"
    /\ result = "returned"
    /\ Count("send_key") = 1

\* msg parses as a JSON value that is not an object
NonObjectJson == Entered /\ Utf8Decode(msg).ok /\ DataOf[msg].ok /\ DataOf[msg].v.t # "dict"

C16_IntegerSentUnchanged ==
    (Entered /\ payload.t = "int")
        => /\ key_to_send = payload
           /\ Count("_get_key_to_send") = 1
           /\ \A c \in CallsOf("_get_key_to_send") : c.arg = payload
           /\ Count("send_key") = 1
           /\ \A c \in CallsOf("send_key") : c.arg = payload

C16_Witness ==
    /\ result = "returned"
    /\ payload = PyInt(0)
    /\ key_to_send = PyInt(0)
    /\ calls[Len(calls)] = [op |-> "send_key", arg |-> PyInt(0), out |-> "ok"]

\* the Device Session calls and publishes made for the current message, in order
Effects == SelectSeq(calls, LAMBDA c : c.op \in DeviceOps \cup {"publish"})
EffectOps == [i \in DOMAIN Effects |-> Effects[i].op]

\* C17: each message has exactly one of three outcomes: (a) no Device Session
\* call and no publish, (b) one query followed by at most one publish, with
\* no send_key, (c) one send_key, no publish, followed by at most one
\* renew_session.  A send_key that failed is not sent again after renewal.
C17_OneOutcomePerMessage ==
    /\ Entered =>
          \/ EffectOps = <<>>
          \/ \E q \in Queries : EffectOps \in {<<q>>, <<q, "publish">>}
          \/ EffectOps \in {<<"send_key">>, <<"send_key", "renew_session">>}
    /\ ~Entered => calls = <<>>
    /\ Count("renew_session") = 1
          => /\ Count("send_key") = 1
             /\ \A c \in CallsOf("send_key") : c.out = "raised"

C17_Witness ==
    /\ result = "returned"
    /\ EffectOps = <<"send_key", "renew_session">>
    /\ Effects[1].out = "raised"
    /\ Effects[2].out = "ok"

\* the three query tokens
SpecialTokens == {sc[1] : sc \in SpecialCases}

\* C18: the query tokens are matched exactly and vocabulary names in any
\* case: a string token that is a query token in another spelling starts no
\* query and no publish, goes through _get_key_to_send and results in exactly
\* one send_key call; a vocabulary member named like a query token is never
\* sent for its upper-case name, which starts the query instead.
C18_QueryTokensCaseSensitive ==
    /\ \A t \in SpecialTokens :
          (Entered /\ payload.t = "str" /\ IsSpelling(payload.s, t) /\ payload.s # t)
              => /\ \A q \in Queries \cup {"publish"} : Count(q) = 0
                 /\ Count("_get_key_to_send") = 1
                 /\ Count("send_key") = 1
                 /\ \A k \in Keys : k.name = t
                       => key_to_send = k /\ \A c \in CallsOf("send_key") : c.arg = k
    /\ \A k \in Keys :
          (Entered /\ k.name \in SpecialTokens /\ payload = PyStr(k.name))
              => /\ Count("send_key") = 0
                 /\ Count("_get_key_to_send") = 0
                 /\ \E q \in Queries : Count(q) = 1

C18_Witness ==
    /\ result = "returned"
    /\ payload = PyStr(StrLower(T_APPS))
    /\ \E k \in Keys : /\ k.name = T_APPS
                       /\ calls[Len(calls)] = [op |-> "send_key", arg |-> k, out |-> "ok"]

\* C19: stop() is idempotent.  A stop() called after stop() has returned,
\* as the service does from its signal handler and again from its finally
\* block, does not raise, has no Device Session call in flight at any of its
\* steps, and leaves the subscription Disconnected with the loop halted, as
\* the first call left it.
C19_SecondStopSameState ==
    stopResult.from = "stopped"
        => /\ stopResult.result \in {"running", "returned"}
           /\ status = "Disconnected"
           /\ loop = "none"
           /\ ~subscribed
           /\ inbox = 0
           /\ ctl.phase = "stopped"
           /\ InFlight = {} /\ pc = "idle"

C19_Witness ==
    /\ stopResult = [result |-> "returned", from |-> "stopped",
                     faults |-> {"unsubscribe", "disconnect"}]
    /\ ctl = [at |-> "idle", phase |-> "stopped"]
    /\ Count("send_key") = 1

====
